---- MODULE Spec2Model ----
(***************************************************************************)
(* The trivia API of backend/flaskr/__init__.py as a state machine.        *)
(*                                                                         *)
(* State: the two tables (Question, Category) with the id counters of the  *)
(* storage, and the last request with the response it got.  One action    *)
(* per route handler.  The model classes (models.py: Question, Category,   *)
(* their insert/delete/format) are not part of the sources; they are       *)
(* modelled from the data model of the specification: rows with unique ids *)
(* handed out by the storage in increasing order, a delete that removes    *)
(* the row, a format that projects the row to its fields.  The storage is  *)
(* taken to be reliable (insert and delete do not raise) and request       *)
(* values to be well typed (texts are strings, difficulty is an integer).  *)
(*                                                                         *)
(* Texts that are searched are sequences of characters, so that the        *)
(* "contains" filter is a real substring test.  A JSON body is a function  *)
(* from the keys that are present to their values.                         *)
(***************************************************************************)
EXTENDS Integers, Sequences, FiniteSets, TLC

QUESTIONS_PER_PAGE == 10

\* Bounds of the model.
MaxQuestions == 2
MaxCategories == 1
MaxFixture == 22
MaxPage == 4
MinPage == 0 - MaxPage

VARIABLES questions, categories, nextQuestionId, nextCategoryId,
          everQuestionIds, request, response

vars == <<questions, categories, nextQuestionId, nextCategoryId,
          everQuestionIds, request, response>>

db == <<questions, categories, nextQuestionId, nextCategoryId, everQuestionIds>>

-----------------------------------------------------------------------------
\* Small helpers.

Min(a, b) == IF a < b THEN a ELSE b

Max(a, b) == IF a > b THEN a ELSE b

Reverse(s) == [i \in 1..Len(s) |-> s[Len(s) + 1 - i]]

Range(s) == {s[i] : i \in 1..Len(s)}

\* Python's s[start:end] for integers start, end (negative values count from
\* the end of the list, everything is clamped to the list).
Slice(s, start, end) ==
  LET n == Len(s)
      norm(i) == IF i < 0 THEN Max(n + i, 0) ELSE Min(i, n)
      lo == norm(start)
      hi == norm(end)
  IN IF lo < hi THEN SubSeq(s, lo + 1, hi) ELSE <<>>

\* Python's str(x) for an integer id.
str(x) == ToString(x)

\* The text-contains operator of the storage: term is a substring of text.
Contains(text, term) ==
  \E i \in 0..(Len(text) - Len(term)) : SubSeq(text, i + 1, i + Len(term)) = term

\* dict.get(key, None) followed by a truth test, for text, string and
\* integer values: absent, empty and zero are falsy.
HasKey(body, key) == key \in DOMAIN body

TruthyText(body, key) == HasKey(body, key) /\ body[key] # <<>>

TruthyStr(body, key) == HasKey(body, key) /\ body[key] # ""

TruthyInt(body, key) == HasKey(body, key) /\ body[key] # 0

\* "not body": no JSON body at all, or the empty object.
NotBody(hasBody, body) == ~hasBody \/ DOMAIN body = {}

-----------------------------------------------------------------------------
\* Storage (models.py).

\* Query.order_by(Question.id).all()
RECURSIVE order_by_id(_)
order_by_id(S) ==
  IF S = {} THEN <<>>
  ELSE LET m == CHOOSE q \in S : \A r \in S : q.id <= r.id
       IN <<m>> \o order_by_id(S \ {m})

\* Query.all() without order_by: the storage picks the order of the rows
\* (one scan direction per request).
Orders == {"asc", "desc"}

Query_all(S, ord) == IF ord = "asc" THEN order_by_id(S) ELSE Reverse(order_by_id(S))

Question_format(q) ==
  [id |-> q.id, question |-> q.question, answer |-> q.answer,
   category |-> q.category, difficulty |-> q.difficulty]

Category_format(c) == [id |-> c.id, type |-> c.type]

FormatQuestions(sel) == [i \in 1..Len(sel) |-> Question_format(sel[i])]

FormatCategories(sel) == [i \in 1..Len(sel) |-> Category_format(sel[i])]

-----------------------------------------------------------------------------
\* Custom functions.

\* request.args.get('page', 1, type=int)
PageOf(args) == IF "page" \in DOMAIN args THEN args.page ELSE 1

\* Mutant: the slice starts one page too far.
paginate_questions_shifted(args, selection) ==
  LET page == PageOf(args)
      start == page * QUESTIONS_PER_PAGE
      end == start + QUESTIONS_PER_PAGE
      qs == FormatQuestions(selection)
  IN Slice(qs, start, end)

paginate_questions(args, selection) ==
  LET page == PageOf(args)
      start == (page - 1) * QUESTIONS_PER_PAGE
      end == start + QUESTIONS_PER_PAGE
      qs == FormatQuestions(selection)
  IN Slice(qs, start, end)

\* abort(status) rendered by the error handlers.
abort(status) == [success |-> FALSE, status |-> status, error |-> status]

\* An exception no handler catches, rendered by the 500 handler.
internal_server_error == [success |-> FALSE, status |-> 500, error |-> 500]

-----------------------------------------------------------------------------
\* Endpoint /questions GET/POST/DELETE

get_questions(args, ord) ==
  LET selection == order_by_id(questions)
      questions_paginated == paginate_questions(args, selection)
      categories_all == FormatCategories(Query_all(categories, ord))
      categories_returned == [i \in 1..Len(categories_all) |-> categories_all[i].type]
  IN /\ request' = [op |-> "get_questions", args |-> args]
     /\ response' = IF Len(questions_paginated) = 0
                    THEN abort(404)
                    ELSE [success |-> TRUE, status |-> 200,
                          questions |-> questions_paginated,
                          total_questions |-> Len(selection),
                          categories |-> categories_returned,
                          current_category |-> categories_returned]
     /\ UNCHANGED db

\* Mutant: the delete is issued on the whole table, not on the row found.
delete_questions_all(question_id) ==
  LET found == {q \in questions : q.id = question_id}
  IN /\ request' = [op |-> "delete_questions", question_id |-> question_id]
     /\ IF found = {}
        THEN /\ response' = abort(400)
             /\ UNCHANGED db
        ELSE /\ questions' = {}
             /\ response' = [success |-> TRUE, status |-> 200, deleted |-> question_id]
             /\ UNCHANGED <<categories, nextQuestionId, nextCategoryId, everQuestionIds>>

delete_questions(question_id) ==
  LET found == {q \in questions : q.id = question_id}
  IN /\ request' = [op |-> "delete_questions", question_id |-> question_id]
     /\ IF found = {}
        THEN /\ response' = abort(400)
             /\ UNCHANGED db
        ELSE /\ questions' = questions \ found
             /\ response' = [success |-> TRUE, status |-> 200, deleted |-> question_id]
             /\ UNCHANGED <<categories, nextQuestionId, nextCategoryId, everQuestionIds>>

\* Mutant: total_questions counts the matches.
search_questions_total_of_matches(body, ord) ==
  LET found == {q \in questions : Contains(q.question, body.searchTerm)}
      questions_found == FormatQuestions(Query_all(found, ord))
      categories_all == FormatCategories(Query_all(categories, ord))
  IN IF found = {}
     THEN abort(404)
     ELSE [success |-> TRUE, status |-> 200,
           questions |-> questions_found,
           total_questions |-> Len(questions_found),
           current_category |-> categories_all]

\* The search mode of create_or_search_questions: its response.
search_questions(body, ord) ==
  LET found == {q \in questions : Contains(q.question, body.searchTerm)}
      questions_found == FormatQuestions(Query_all(found, ord))
      selections == order_by_id(questions)
      categories_all == FormatCategories(Query_all(categories, ord))
  IN IF found = {}
     THEN abort(404)
     ELSE [success |-> TRUE, status |-> 200,
           questions |-> questions_found,
           total_questions |-> Len(selections),
           current_category |-> categories_all]

\* Mutant: the fields are tested for presence only ("is None").
fields_absent(body) ==
  \/ ~HasKey(body, "question")
  \/ ~HasKey(body, "answer")
  \/ ~HasKey(body, "category")
  \/ ~HasKey(body, "difficulty")

\* The create mode's test of the four fields.
fields_missing(body) ==
  \/ ~TruthyText(body, "question")
  \/ ~TruthyText(body, "answer")
  \/ ~TruthyStr(body, "category")
  \/ ~TruthyInt(body, "difficulty")

create_or_search_questions(hasBody, body, args, ord) ==
  /\ request' = [op |-> "create_or_search_questions", hasBody |-> hasBody,
                 body |-> body, args |-> args]
  /\ IF NotBody(hasBody, body)
     THEN /\ response' = abort(400)
          /\ UNCHANGED db
     ELSE IF TruthyText(body, "searchTerm")
     THEN /\ response' = search_questions(body, ord)
          /\ UNCHANGED db
     ELSE IF fields_missing(body)
     THEN /\ response' = abort(400)
          /\ UNCHANGED db
     ELSE LET question == [id |-> nextQuestionId,
                           question |-> body.question,
                           answer |-> body.answer,
                           category |-> body.category,
                           difficulty |-> body.difficulty]
              selections == order_by_id(questions \cup {question})
              questions_paginated == paginate_questions(args, selections)
          IN /\ nextQuestionId <= MaxQuestions
             /\ questions' = questions \cup {question}
             /\ nextQuestionId' = nextQuestionId + 1
             /\ everQuestionIds' = everQuestionIds \cup {question.id}
             /\ response' = [success |-> TRUE, status |-> 200,
                             created |-> question.id,
                             questions |-> questions_paginated,
                             total_questions |-> Len(selections)]
             /\ UNCHANGED <<categories, nextCategoryId>>

-----------------------------------------------------------------------------
\* Endpoint /quizzes POST

\* The rows the four queries of play_quiz select.
QuizSelection(body) ==
  LET hasPrevious == HasKey(body, "previous_questions") /\ body.previous_questions # <<>>
      hasCategory == HasKey(body, "quiz_category")
  IN {q \in questions :
        /\ hasCategory => q.category = str(body.quiz_category.id)
        /\ hasPrevious => q.id \notin Range(body.previous_questions)}

\* Mutant: the question handed out is taken off the table.
play_quiz_consuming(hasBody, body, ord) ==
  /\ request' = [op |-> "play_quiz", hasBody |-> hasBody, body |-> body]
  /\ UNCHANGED <<categories, nextQuestionId, nextCategoryId, everQuestionIds>>
  /\ IF NotBody(hasBody, body)
     THEN response' = abort(400) /\ UNCHANGED questions
     ELSE LET questions_raw == Query_all(QuizSelection(body), ord)
              questions_formatted == FormatQuestions(questions_raw)
          IN \E randint \in 0..Len(questions_formatted) :
               IF randint < Len(questions_formatted)
               THEN /\ response' = [success |-> TRUE, status |-> 200,
                                    question |-> questions_formatted[randint + 1]]
                    /\ questions' = questions \ {questions_raw[randint + 1]}
               ELSE /\ response' = internal_server_error
                    /\ UNCHANGED questions

play_quiz(hasBody, body, ord) ==
  /\ request' = [op |-> "play_quiz", hasBody |-> hasBody, body |-> body]
  /\ UNCHANGED db
  /\ IF NotBody(hasBody, body)
     THEN response' = abort(400)
     ELSE LET questions_raw == Query_all(QuizSelection(body), ord)
              questions_formatted == FormatQuestions(questions_raw)
          IN \E randint \in 0..Len(questions_formatted) :
               response' = IF randint < Len(questions_formatted)
                           THEN [success |-> TRUE, status |-> 200,
                                 question |-> questions_formatted[randint + 1]]
                           ELSE internal_server_error

-----------------------------------------------------------------------------
\* Endpoint /categories GET/POST/DELETE

get_categories(ord) ==
  LET categories_all == FormatCategories(Query_all(categories, ord))
      categories_returned == [i \in 1..Len(categories_all) |-> categories_all[i].type]
  IN /\ request' = [op |-> "get_categories"]
     /\ response' = IF categories = {}
                    THEN abort(404)
                    ELSE [success |-> TRUE, status |-> 200,
                          categories |-> categories_returned]
     /\ UNCHANGED db

\* Mutant: the category filter of the query is lost.
get_questions_from_categories_unfiltered(category_id, args) ==
  LET selection == order_by_id(questions)
      questions_paginated == paginate_questions(args, selection)
  IN /\ request' = [op |-> "get_questions_from_categories",
                    category_id |-> category_id, args |-> args]
     /\ response' = IF selection = <<>>
                    THEN abort(400)
                    ELSE IF questions_paginated = <<>>
                    THEN abort(404)
                    ELSE [success |-> TRUE, status |-> 200,
                          questions |-> questions_paginated,
                          total_questions |-> Len(selection),
                          current_category |-> category_id]
     /\ UNCHANGED db

get_questions_from_categories(category_id, args) ==
  LET selection == order_by_id({q \in questions : q.category = category_id})
      questions_paginated == paginate_questions(args, selection)
  IN /\ request' = [op |-> "get_questions_from_categories",
                    category_id |-> category_id, args |-> args]
     /\ response' = IF selection = <<>>
                    THEN abort(400)
                    ELSE IF questions_paginated = <<>>
                    THEN abort(404)
                    ELSE [success |-> TRUE, status |-> 200,
                          questions |-> questions_paginated,
                          total_questions |-> Len(selection),
                          current_category |-> category_id]
     /\ UNCHANGED db

create_categories(hasBody, body) ==
  /\ request' = [op |-> "create_categories", hasBody |-> hasBody, body |-> body]
  /\ IF NotBody(hasBody, body) \/ ~TruthyStr(body, "type")
     THEN /\ response' = abort(400)
          /\ UNCHANGED db
     ELSE LET category == [id |-> nextCategoryId, type |-> body.type]
              selections == order_by_id(categories \cup {category})
          IN /\ nextCategoryId <= MaxCategories
             /\ categories' = categories \cup {category}
             /\ nextCategoryId' = nextCategoryId + 1
             /\ response' = [success |-> TRUE, status |-> 200,
                             created |-> category.id,
                             categories |-> FormatCategories(selections),
                             total_categories |-> Len(selections)]
             /\ UNCHANGED <<questions, nextQuestionId, everQuestionIds>>

\* Mutant: the delete cascades to the questions of the category.
delete_categories_cascading(category_id) ==
  LET found == {c \in categories : c.id = category_id}
  IN /\ request' = [op |-> "delete_categories", category_id |-> category_id]
     /\ IF found = {}
        THEN /\ response' = abort(400)
             /\ UNCHANGED db
        ELSE /\ categories' = categories \ found
             /\ questions' = {q \in questions : q.category # str(category_id)}
             /\ response' = [success |-> TRUE, status |-> 200, deleted |-> category_id]
             /\ UNCHANGED <<nextQuestionId, nextCategoryId, everQuestionIds>>

delete_categories(category_id) ==
  LET found == {c \in categories : c.id = category_id}
  IN /\ request' = [op |-> "delete_categories", category_id |-> category_id]
     /\ IF found = {}
        THEN /\ response' = abort(400)
             /\ UNCHANGED db
        ELSE /\ categories' = categories \ found
             /\ response' = [success |-> TRUE, status |-> 200, deleted |-> category_id]
             /\ UNCHANGED <<questions, nextQuestionId, nextCategoryId, everQuestionIds>>

-----------------------------------------------------------------------------
\* Requests.

NoBody == <<>>

PageArgs == {<<>>} \cup {[page |-> p] : p \in MinPage..MaxPage}

FewPageArgs == {<<>>, [page |-> 2]}

SearchPageArgs == {<<>>, [page |-> 2], [page |-> MinPage]}

SearchTerms == {<<"a">>, <<"b">>, <<"a", "b">>}

CategoryIds == {"1", "2"}

QuizCategoryIds == {1, 2}

\* Bodies with the four fields present and truthy.
ValidBodies ==
  {[question |-> <<"a">>, answer |-> <<"x">>, category |-> "1", difficulty |-> 1],
   [question |-> <<"b", "a">>, answer |-> <<"x">>, category |-> "1", difficulty |-> 2],
   [question |-> <<"a">>, answer |-> <<"y">>, category |-> "2", difficulty |-> 1]}

\* A valid body with one field dropped, or made falsy.
Without(body, key) == [k \in (DOMAIN body) \ {key} |-> body[k]]

DefectiveBodies ==
  LET b == [question |-> <<"a">>, answer |-> <<"x">>, category |-> "1", difficulty |-> 1]
  IN {Without(b, k) : k \in DOMAIN b}
       \cup {[b EXCEPT !.question = <<>>], [b EXCEPT !.answer = <<>>],
             [b EXCEPT !.category = ""], [b EXCEPT !.difficulty = 0]}

SearchBodies == {"searchTerm" :> t : t \in SearchTerms}

\* A falsy searchTerm selects the create mode.
FalsySearchBodies ==
  {[searchTerm |-> <<>>],
   [searchTerm |-> <<>>, question |-> <<"a">>, answer |-> <<"x">>,
    category |-> "1", difficulty |-> 1]}

\* previous_questions: the ids 1..k, in order.
PreviousLists == {[i \in 1..k |-> i] : k \in 0..MaxQuestions}

QuizBodies ==
  {p @@ c :
     p \in {<<>>} \cup {"previous_questions" :> l : l \in PreviousLists},
     c \in {<<>>} \cup {"quiz_category" :> [id |-> k] : k \in QuizCategoryIds}}
    \ {<<>>}

CategoryBodies == {[name |-> "Science"], [type |-> ""], [type |-> "Science"]}

-----------------------------------------------------------------------------
\* The service over a database that starts empty.

Init ==
  /\ questions = {}
  /\ categories = {}
  /\ nextQuestionId = 1
  /\ nextCategoryId = 1
  /\ everQuestionIds = {}
  /\ request = [op |-> "none"]
  /\ response = [status |-> 0]

\* play_quiz picks over every position of the list, so the scan order of its
\* query adds no outcome; the requests below fix it.
Next ==
  \/ \E args \in FewPageArgs, ord \in Orders : get_questions(args, ord)
  \/ \E question_id \in 1..(MaxQuestions + 1) : delete_questions(question_id)
  \/ \E body \in ValidBodies, args \in FewPageArgs :
       create_or_search_questions(TRUE, body, args, "asc")
  \/ \E body \in DefectiveBodies \cup FalsySearchBodies :
       create_or_search_questions(TRUE, body, <<>>, "asc")
  \/ \E body \in SearchBodies, ord \in Orders :
       create_or_search_questions(TRUE, body, <<>>, ord)
  \/ \E hasBody \in BOOLEAN : create_or_search_questions(hasBody, NoBody, <<>>, "asc")
  \/ \E body \in QuizBodies : play_quiz(TRUE, body, "asc")
  \/ \E hasBody \in BOOLEAN : play_quiz(hasBody, NoBody, "asc")
  \/ \E ord \in Orders : get_categories(ord)
  \/ \E category_id \in CategoryIds \cup {"3"}, args \in FewPageArgs :
       get_questions_from_categories(category_id, args)
  \/ \E body \in CategoryBodies : create_categories(TRUE, body)
  \/ \E hasBody \in BOOLEAN : create_categories(hasBody, NoBody)
  \/ \E category_id \in 1..(MaxCategories + 1) : delete_categories(category_id)

Spec == Init /\ [][Next]_vars

-----------------------------------------------------------------------------
\* The read-only routes over a populated database (more than one page).

Patterns == {"same", "mixed", "gaps"}

FixtureQuestion(i, pat) ==
  [id |-> IF pat = "gaps" THEN 2 * i ELSE i,
   question |-> IF pat # "same" /\ i % 2 = 0 THEN <<"b", "a">> ELSE <<"a">>,
   answer |-> <<"x">>,
   category |-> IF pat # "same" /\ i % 2 = 0 THEN "2" ELSE "1",
   difficulty |-> 1 + (i % 3)]

FixtureQuestions(n, pat) == {FixtureQuestion(i, pat) : i \in 1..n}

FixtureCategories == {[id |-> 1, type |-> "Science"], [id |-> 2, type |-> "Art"]}

InitPage ==
  \E n \in 0..MaxFixture, pat \in Patterns :
    /\ questions = FixtureQuestions(n, pat)
    /\ categories = FixtureCategories
    /\ nextQuestionId = (IF pat = "gaps" THEN 2 * n ELSE n) + 1
    /\ nextCategoryId = 3
    /\ everQuestionIds = {q.id : q \in FixtureQuestions(n, pat)}
    /\ request = [op |-> "none"]
    /\ response = [status |-> 0]

NextPage ==
  \/ \E args \in PageArgs, ord \in Orders : get_questions(args, ord)
  \/ \E body \in SearchBodies, args \in SearchPageArgs, ord \in Orders :
       create_or_search_questions(TRUE, body, args, ord)
  \/ \E category_id \in CategoryIds \cup {"3"}, args \in PageArgs :
       get_questions_from_categories(category_id, args)

SpecPage == InitPage /\ [][NextPage]_vars

-----------------------------------------------------------------------------
\* Vocabulary of the properties.

QuestionIds == {q.id : q \in questions}

\* ceil(n / QUESTIONS_PER_PAGE)
LastPage(n) == (n + QUESTIONS_PER_PAGE - 1) \div QUESTIONS_PER_PAGE

\* The element of S at position k (from 0) of the id-ascending order.
AtPosition(S, k) == CHOOSE q \in S : Cardinality({r \in S : r.id < q.id}) = k

Formatted(S) == {Question_format(q) : q \in S}

IsQuiz == request.op = "play_quiz" /\ ~NotBody(request.hasBody, request.body)

\* The matched set of a quiz request, as the four cases describe it.
Matched ==
  {q \in questions :
     /\ (/\ HasKey(request.body, "previous_questions")
         /\ request.body.previous_questions # <<>>)
          => \A i \in 1..Len(request.body.previous_questions) :
               q.id # request.body.previous_questions[i]
     /\ HasKey(request.body, "quiz_category")
          => q.category = str(request.body.quiz_category.id)}

-----------------------------------------------------------------------------
\* C1: POST /quizzes with a non-empty matched set always responds with
\* success true and a question of the matched set, whatever the random pick.
C1_QuizSucceeds ==
  (IsQuiz /\ Matched # {})
    => /\ response.status = 200
       /\ response.success
       /\ response.question \in Formatted(Matched)

\* C2: POST /quizzes with an empty matched set returns a defined failure, never
\* the response of an unhandled out-of-range index error.
C2_EmptyQuizDefinedFailure ==
  (IsQuiz /\ Matched = {}) => response.status \in {400, 404}

\* C3: for n stored questions and a page p in 1..ceil(n/10), GET /questions
\* succeeds with min(10, n - (p-1)*10) questions, those at the positions
\* (p-1)*10 .. p*10 - 1 of the id-ascending order, and total_questions = n.
C3_PageContents ==
  LET n == Cardinality(questions)
      p == PageOf(request.args)
      first == (p - 1) * QUESTIONS_PER_PAGE
  IN (request.op = "get_questions" /\ p \in 1..LastPage(n))
       => /\ response.status = 200
          /\ Len(response.questions) = Min(QUESTIONS_PER_PAGE, n - first)
          /\ \A k \in 1..Len(response.questions) :
               response.questions[k] = Question_format(AtPosition(questions, first + k - 1))
          /\ response.total_questions = n

C3_Witness ==
  /\ request.op = "get_questions"
  /\ PageOf(request.args) = 3
  /\ response.status = 200
  /\ Len(response.questions) = 2
  /\ response.total_questions = 2 * QUESTIONS_PER_PAGE + 2

\* C4: a page outside 1..ceil(n/10) (beyond the last, zero or negative) is
\* empty, so GET /questions with such a page responds 404.
C4_OutOfRangePageIs404 ==
  LET n == Cardinality(questions)
      p == PageOf(request.args)
  IN (request.op = "get_questions" /\ p \notin 1..LastPage(n))
       => response.status = 404

AllFour(body) ==
  /\ \A k \in {"question", "answer", "category", "difficulty"} : k \in DOMAIN body
  /\ body.question # <<>>
  /\ body.answer # <<>>
  /\ body.category # ""
  /\ body.difficulty # 0

IsCreateMode(req) ==
  /\ req.op = "create_or_search_questions"
  /\ req.hasBody
  /\ DOMAIN req.body # {}
  /\ ("searchTerm" \in DOMAIN req.body => req.body.searchTerm = <<>>)

C7_Search ==
  (/\ request.op = "create_or_search_questions"
   /\ request.hasBody
   /\ "searchTerm" \in DOMAIN request.body
   /\ request.body.searchTerm # <<>>)
    => LET found == {q \in questions : Contains(q.question, request.body.searchTerm)}
       IN IF found = {}
          THEN response.status = 404
          ELSE /\ response.status = 200
               /\ Len(response.questions) = Cardinality(found)
               /\ Range(response.questions) = Formatted(found)
               /\ response.total_questions = Cardinality(questions)

C7_Witness ==
  /\ request.op = "create_or_search_questions"
  /\ response.status = 200
  /\ "page" \in DOMAIN request.args
  /\ Len(response.questions) > QUESTIONS_PER_PAGE
  /\ Len(response.questions) < response.total_questions

====
